---- MODULE Spec2Model ----
(***************************************************************************)
(* Model of autotrader/brokers/alpaca/broker.py: the Broker adapter that   *)
(* forwards venue-neutral orders to the Alpaca REST client.                *)
(*                                                                         *)
(* The Broker object holds no order state of its own; everything it does   *)
(* is a sequence of calls on self.alpaca.  The venue (its asset table, its *)
(* order book and its positions) is therefore part of the state, and each  *)
(* public method of Broker is one action that records the venue calls it   *)
(* made, the outcome the caller sees and the value it returned.            *)
(*                                                                         *)
(* Sizes and prices are Python floats with at most Scale decimals; they    *)
(* are represented by the integer number of 10^-Scale units (10.456 is     *)
(* 10456 at Scale 3).  Alpaca's REST client is outside the repository: its *)
(* calls are modelled by what the venue documents for them, every          *)
(* get_asset and submit_order succeeding.                                  *)
(***************************************************************************)
EXTENDS Integers, Sequences, FiniteSets, TLC

(***************************************************************************)
(* Bounds of the model.                                                    *)
(***************************************************************************)
Scale == 3             \* decimals carried by a modelled float
MaxEighths == 12       \* SpecRound rounds the sizes 0, 1/8, .. MaxEighths/8
MaxPlaced == 2         \* place_order calls of a behaviour
MaxLookups == 2        \* direct check_trade_size/_check_precision calls per instrument
MaxBook == 2           \* orders in the venue's book when SpecBook starts

None == -1             \* Python None for a numeric keyword argument

Instruments == {"AAPL", "BTCUSD"}
Directions == {1, -1}
SubmitTypes == {"market", "limit", "stop-limit"}
LimitPrices == {101500}   \* order.order_limit_price of the orders placed
StopPrices == {99250}     \* order.order_stop_price of the orders placed

(***************************************************************************)
(* Python arithmetic.                                                      *)
(***************************************************************************)
RECURSIVE Pow10(_)
Pow10(n) == IF n <= 0 THEN 1 ELSE 10 * Pow10(n - 1)

Abs(n) == IF n < 0 THEN -n ELSE n

Sign(n) == IF n > 0 THEN 1 ELSE IF n < 0 THEN -1 ELSE 0

RECURSIVE BitLength(_)
BitLength(n) == IF n = 0 THEN 0 ELSE 1 + BitLength(n \div 2)

(* The sign of double(x / 10^Scale) - x / 10^Scale, x >= 0: a Python float *)
(* is the IEEE double nearest to the decimal, so the 53 significant bits   *)
(* of x / 10^Scale are produced by long division and the remainder left    *)
(* after the last of them says which way the double was rounded.           *)
RECURSIVE FloatErrBits(_, _, _)
FloatErrBits(r, need, started) ==
    IF r = 0 THEN 0
    ELSE IF need = 0 THEN (IF 2 * r > Pow10(Scale) THEN 1 ELSE -1)
    ELSE LET r2 == 2 * r
             bit == r2 >= Pow10(Scale)
             rest == r2 % Pow10(Scale)
         IN IF started \/ bit
            THEN FloatErrBits(rest, need - 1, TRUE)
            ELSE FloatErrBits(rest, need, FALSE)

FloatErrSign(x) ==
    LET int == x \div Pow10(Scale)
        b == BitLength(int)
    IN FloatErrBits(x % Pow10(Scale), 53 - b, b > 0)

(* round(x, n) of a non-negative float: the exact value of the double is   *)
(* rounded to n decimals, an exact tie going to the even neighbour.        *)
PyRound(x, n) ==
    IF n >= Scale THEN x
    ELSE LET q == Pow10(Scale - n)
             lo == (x \div q) * q
             rem == x % q
             err == FloatErrSign(x)
         IN IF 2 * rem < q THEN lo
            ELSE IF 2 * rem > q THEN lo + q
            ELSE IF err > 0 THEN lo + q
            ELSE IF err < 0 THEN lo
            ELSE IF (x \div q) % 2 = 0 THEN lo ELSE lo + q

(* The number of decimals a value in 10^-Scale units needs.                *)
RECURSIVE DecimalsFrom(_, _)
DecimalsFrom(x, n) ==
    IF n >= Scale \/ x % Pow10(Scale - n) = 0 THEN n ELSE DecimalsFrom(x, n + 1)

Decimals(x) == DecimalsFrom(x, 0)

(***************************************************************************)
(* State.                                                                  *)
(***************************************************************************)
VARIABLES
    assets,        \* venue: instrument -> asset record returned by get_asset
    venue_orders,  \* venue: the order book, a sequence of order records
    positions,     \* venue: instrument -> position record
    placed,        \* caller: the Order objects order() has stamped, in call order,
                   \*         each with the venue submissions made for it
    lookups,       \* history: instrument -> get_asset calls made for it
    order_attrs,   \* venue: the attribute names its order entities answer to
    last           \* the last step: operation, argument, outcome, venue calls, returned value

vars == <<assets, venue_orders, positions, order_attrs, placed, lookups, last>>

NoInstrument == "None"     \* instrument=None of the query methods

(* Asset records: fractionable, and min_trade_increment as the decimal     *)
(* string the venue sends, held as coefficient and exponent ("0.01" is     *)
(* 1E-2, exponent -2).                                                     *)
Increments == {[coefficient |-> 1, exponent |-> -e] : e \in 0 .. Scale}
Assets == [fractionable : BOOLEAN, min_trade_increment : Increments]
PlaceAssets ==
    {a \in Assets : a.min_trade_increment.exponent = 0 - 2}

NoPosition == [side |-> "none", qty |-> 0, unrealized_pl |-> 0]
LongPosition == [side |-> "long", qty |-> 3, unrealized_pl |-> 12]
ShortPosition == [side |-> "short", qty |-> 0 - 2, unrealized_pl |-> 0 - 7]
Positions == {NoPosition, LongPosition, ShortPosition}

OpenStatuses == {"new", "partially_filled"}
ClosedStatuses == {"filled", "canceled", "rejected"}

(***************************************************************************)
(* The venue calls an operation makes, in the order it makes them.         *)
(***************************************************************************)
VenueCall(fn, symbol, qty, side, type, tif, limit_price, stop_price, order_id) ==
    [fn |-> fn, symbol |-> symbol, qty |-> qty, side |-> side, type |-> type,
     time_in_force |-> tif, limit_price |-> limit_price, stop_price |-> stop_price,
     order_id |-> order_id]

GetAssetCall(symbol) ==
    VenueCall("get_asset", symbol, None, "", "", "", None, None, None)

SubmitCall(symbol, qty, side, type, limit_price, stop_price) ==
    VenueCall("submit_order", symbol, qty, side, type, "gtc", limit_price, stop_price, None)

ClosePositionCall(symbol) ==
    VenueCall("close_position", symbol, None, "", "", "", None, None, None)

CancelOrderCall(order_id) ==
    VenueCall("cancel_order", "", None, "", "", "", None, None, order_id)

ListOrdersCall(status, instrument) ==
    VenueCall("list_orders", instrument, None, "", status, "", None, None, None)

GetPositionCall(symbol) ==
    VenueCall("get_position", symbol, None, "", "", "", None, None, None)

GetPositionsCall ==
    VenueCall("get_positions", NoInstrument, None, "", "", "", None, None, None)

CallsOf(calls, fn) == {k \in 1 .. Len(calls) : calls[k].fn = fn}

(***************************************************************************)
(* The venue behind self.alpaca: what each call does to the venue's state  *)
(* and whether it raises.  v is the venue state [orders, positions,        *)
(* raised]; an order that is no longer open cannot be cancelled, and a     *)
(* position that does not exist can be neither fetched nor closed.         *)
(***************************************************************************)
alpaca_submit_order(v, c) ==
    [v EXCEPT !.orders = Append(@,
        [id |-> Len(@) + 1, symbol |-> c.symbol, qty |-> c.qty, side |-> c.side,
         type |-> c.type, limit_price |-> c.limit_price, stop_price |-> c.stop_price,
         status |-> "new", filled_qty |-> 0])]

alpaca_close_position(v, c) ==
    IF v.positions[c.symbol] = NoPosition
    THEN [v EXCEPT !.raised = TRUE]
    ELSE [v EXCEPT !.positions[c.symbol] = NoPosition]

alpaca_cancel_order(v, c) ==
    IF c.order_id \in 1 .. Len(v.orders) /\ v.orders[c.order_id].status \in OpenStatuses
    THEN [v EXCEPT !.orders[c.order_id].status = "canceled"]
    ELSE [v EXCEPT !.raised = TRUE]

alpaca_get_position(v, c) ==
    IF v.positions[c.symbol] = NoPosition THEN [v EXCEPT !.raised = TRUE] ELSE v

alpaca_list_orders(book, status, instrument) ==
    SelectSeq(book, LAMBDA o :
        /\ (status = "open" => o.status \in OpenStatuses)
        /\ (status = "closed" => o.status \in ClosedStatuses)
        /\ (instrument # NoInstrument => o.symbol = instrument))

VenueStep(v, c) ==
    CASE c.fn = "submit_order" -> alpaca_submit_order(v, c)
      [] c.fn = "close_position" -> alpaca_close_position(v, c)
      [] c.fn = "cancel_order" -> alpaca_cancel_order(v, c)
      [] c.fn = "get_position" -> alpaca_get_position(v, c)
      [] OTHER -> v

RECURSIVE VenueRun(_, _)
VenueRun(v, calls) ==
    IF calls = <<>> THEN v ELSE VenueRun(VenueStep(v, Head(calls)), Tail(calls))

Venue == [orders |-> venue_orders, positions |-> positions, raised |-> FALSE]

(***************************************************************************)
(* Precision and rounding.                                                 *)
(***************************************************************************)
GetPrecisionIgnoresFractionable(asset) ==
    Abs(asset.min_trade_increment.exponent)

GetPrecision(asset) ==
    IF asset.fractionable
    THEN Abs(asset.min_trade_increment.exponent)
    ELSE 0

_get_precision(instrument) == GetPrecision(assets[instrument])

_check_precision(instrument, price) ==
    PyRound(price, _get_precision(instrument))

CheckTradeSizeOneMoreDecimal(instrument, units) ==
    PyRound(units, _get_precision(instrument) + 1)

check_trade_size(instrument, units) ==
    PyRound(units, _get_precision(instrument))

(***************************************************************************)
(* Order placement: the venue calls each private method makes.             *)
(***************************************************************************)
Side(direction) == IF direction > 0 THEN "buy" ELSE "sell"

_place_market_order(order) ==
    <<GetAssetCall(order.instrument),
      SubmitCall(order.instrument,
                 order.direction * check_trade_size(order.instrument, order.size),
                 Side(order.direction), "trailing_stop", None, None)>>

_place_stop_limit_order(order) ==
    <<GetAssetCall(order.instrument),
      SubmitCall(order.instrument,
                 order.direction * check_trade_size(order.instrument, order.size),
                 Side(order.direction), "stop_limit",
                 order.order_limit_price, order.order_stop_price)>>

_place_limit_order(order) ==
    <<GetAssetCall(order.instrument),
      SubmitCall(order.instrument,
                 order.direction * check_trade_size(order.instrument, order.size),
                 Side(order.direction), "limit", order.order_limit_price, None)>>

ClosePositionAlsoSubmits(order) ==
    <<ClosePositionCall(order.instrument),
      SubmitCall(order.instrument, order.direction * order.size,
                 Side(order.direction), "market", None, None)>>

_close_position(order) == <<ClosePositionCall(order.instrument)>>

PlaceOrderCalls(order) ==
    IF order.order_type = "market" THEN _place_market_order(order)
    ELSE IF order.order_type = "stop-limit" THEN _place_stop_limit_order(order)
    ELSE IF order.order_type = "limit" THEN _place_limit_order(order)
    ELSE IF order.order_type = "close" THEN _close_position(order)
    ELSE <<>>

PlaceOrderPrints(order) ==
    IF order.order_type \in {"market", "stop-limit", "limit", "close"}
    THEN ""
    ELSE "Order type not recognised."

(***************************************************************************)
(* The record of a step, and the history counters.                         *)
(***************************************************************************)
Step(op, arg, outcome, printed, calls, result) ==
    [op |-> op, arg |-> arg, outcome |-> outcome, printed |-> printed,
     calls |-> calls, result |-> result]

Outcome(v) == IF v.raised THEN "raise" ELSE "ok"

CountLookups(calls) ==
    [i \in Instruments |->
        lookups[i] + Cardinality({k \in CallsOf(calls, "get_asset") : calls[k].symbol = i})]

Submissions(calls) ==
    Cardinality(CallsOf(calls, "submit_order") \cup CallsOf(calls, "close_position"))

RECURSIVE SubmitsOf(_, _)
SubmitsOf(log, order) ==
    IF log = <<>> THEN 0
    ELSE (IF Head(log).order = order THEN Head(log).submissions ELSE 0)
         + SubmitsOf(Tail(log), order)

(* The keys of a Python dict built by d[x.id] = ... for x in turn, and the  *)
(* element whose assignment to a key is the one that stays.                *)
Ids(seq) == {seq[n].id : n \in 1 .. Len(seq)}

LastWithId(seq, id) ==
    seq[CHOOSE n \in 1 .. Len(seq) :
            /\ seq[n].id = id
            /\ \A m \in n + 1 .. Len(seq) : seq[m].id # id]

(***************************************************************************)
(* Broker.place_order                                                      *)
(***************************************************************************)
place_order(order) ==
    LET calls == PlaceOrderCalls(order)
        v == VenueRun(Venue, calls)
    IN /\ Len(placed) < MaxPlaced
       /\ placed' = Append(placed, [order |-> order, submissions |-> Submissions(calls)])
       /\ venue_orders' = v.orders
       /\ positions' = v.positions
       /\ lookups' = CountLookups(calls)
       /\ last' = Step("place_order", order, Outcome(v), PlaceOrderPrints(order),
                       calls, None)
       /\ UNCHANGED <<assets, order_attrs>>

(***************************************************************************)
(* Broker.check_trade_size and Broker._check_precision called directly     *)
(***************************************************************************)
call_check_trade_size(instrument, units) ==
    LET calls == <<GetAssetCall(instrument)>>
    IN /\ lookups[instrument] < MaxLookups
       /\ lookups' = CountLookups(calls)
       /\ last' = Step("check_trade_size", [instrument |-> instrument, units |-> units],
                       "ok", "", calls, check_trade_size(instrument, units))
       /\ UNCHANGED <<assets, venue_orders, positions, order_attrs, placed>>

call_check_precision(instrument, price) ==
    LET calls == <<GetAssetCall(instrument)>>
    IN /\ lookups[instrument] < MaxLookups
       /\ lookups' = CountLookups(calls)
       /\ last' = Step("_check_precision", [instrument |-> instrument, units |-> price],
                       "ok", "", calls, _check_precision(instrument, price))
       /\ UNCHANGED <<assets, venue_orders, positions, order_attrs, placed>>

(***************************************************************************)
(* Broker.cancel_order                                                     *)
(***************************************************************************)
CancelOrderCalls(order_id) == <<CancelOrderCall(order_id)>>

cancel_order(order_id) ==
    LET calls == CancelOrderCalls(order_id)
        v == VenueRun(Venue, calls)
    IN /\ venue_orders' = v.orders
       /\ last' = Step("cancel_order", order_id, Outcome(v), "", calls, None)
       /\ UNCHANGED <<assets, positions, order_attrs, placed, lookups>>

(***************************************************************************)
(* Broker.get_orders, Broker.get_trades, Broker.get_positions              *)
(***************************************************************************)
NewOrder(order) ==
    [id |-> order.id, status |-> "open", order_type |-> order.type,
     order_stop_price |-> order.stop_price, order_limit_price |-> order.limit_price,
     direction |-> IF order.side = "buy" THEN 1 ELSE -1,
     instrument |-> order.symbol, size |-> order.qty,
     order_price |-> None, take_profit |-> None, stop_loss |-> None]

GetOrdersResult(instrument) ==
    LET alpaca_orders == alpaca_list_orders(venue_orders, "open", instrument)
    IN [id \in Ids(alpaca_orders) |-> NewOrder(LastWithId(alpaca_orders, id))]

get_orders(instrument) ==
    /\ last' = Step("get_orders", instrument, "ok", "",
                    <<ListOrdersCall("open", instrument)>>, GetOrdersResult(instrument))
    /\ UNCHANGED <<assets, venue_orders, positions, order_attrs, placed, lookups>>

(* The order entities list_orders returns come from the venue's client    *)
(* library, which is not part of the repository.  OrderFields are the      *)
(* attributes of an order the broker reads that every order carries; the   *)
(* source does not decide whether an order entity also answers to          *)
(* unrealized_pl, so the venue is started with either kind of entity.      *)
OrderFields ==
    {"id", "symbol", "qty", "filled_qty", "side", "type", "limit_price",
     "stop_price", "status", "created_at", "filled_at", "filled_avg_price"}

OrderEntities == {OrderFields, OrderFields \cup {"unrealized_pl"}}

(* The attributes of trade that building new_trade reads, in order.        *)
NewTradeReads ==
    <<"symbol", "filled_at", "filled_avg_price", "filled_qty", "id", "side",
      "status", "unrealized_pl", "stop_price", "limit_price">>

(* Reading an attribute the entity does not answer to raises              *)
(* AttributeError.                                                         *)
NewTradeRaises ==
    \E n \in 1 .. Len(NewTradeReads) : NewTradeReads[n] \notin order_attrs

AttributeError == [raised |-> "AttributeError"]

NewTrade(trade) ==
    IF NewTradeRaises THEN AttributeError
    ELSE [instrument |-> trade.symbol, size |-> trade.filled_qty, id |-> trade.id,
          direction |-> IF trade.side = "buy" THEN 1 ELSE -1, status |-> trade.status,
          order_stop_price |-> trade.stop_price, order_limit_price |-> trade.limit_price]

GetTradesKeepsAllClosed(instrument) ==
    alpaca_list_orders(venue_orders, "closed", instrument)

(* The filled orders of the closed list, for each of which new_trade is    *)
(* built.                                                                  *)
FilledTrades(instrument) ==
    SelectSeq(alpaca_list_orders(venue_orders, "closed", instrument),
              LAMBDA trade : trade.status = "filled")

GetTradesRaises(instrument) ==
    FilledTrades(instrument) # <<>> /\ NewTradeRaises

GetTradesResult(instrument) ==
    LET filled == FilledTrades(instrument)
    IN IF GetTradesRaises(instrument) THEN None
       ELSE [id \in Ids(filled) |-> NewTrade(LastWithId(filled, id))]

get_trades(instrument) ==
    /\ last' = Step("get_trades", instrument,
                    IF GetTradesRaises(instrument) THEN "raise" ELSE "ok", "",
                    <<ListOrdersCall("closed", instrument)>>, GetTradesResult(instrument))
    /\ UNCHANGED <<assets, venue_orders, positions, order_attrs, placed, lookups>>

map_position(symbol) ==
    LET position == positions[symbol]
        side == IF position.side = "long" THEN "long" ELSE "short"
        qty == Sign(position.qty)
        pl == Sign(position.unrealized_pl)
    IN [instrument |-> symbol,
        long_units |-> IF side = "long" THEN qty ELSE 0,
        long_PL |-> IF side = "long" THEN pl ELSE 0,
        long_margin |-> None,
        short_units |-> IF side = "short" THEN qty ELSE 0,
        short_PL |-> IF side = "short" THEN pl ELSE 0]

GetPositionsCalls(instrument) ==
    IF instrument = NoInstrument
    THEN <<GetPositionsCall>>
    ELSE <<GetPositionCall(instrument)>>

GetPositionsResult(instrument) ==
    IF instrument = NoInstrument
    THEN [s \in {i \in Instruments : positions[i] # NoPosition} |-> map_position(s)]
    ELSE [s \in {i \in {instrument} : positions[i] # NoPosition} |-> map_position(s)]

get_positions(instrument) ==
    LET calls == GetPositionsCalls(instrument)
        v == VenueRun(Venue, calls)
    IN /\ last' = Step("get_positions", instrument, Outcome(v), "", calls,
                       IF v.raised THEN None ELSE GetPositionsResult(instrument))
       /\ UNCHANGED <<assets, venue_orders, positions, order_attrs, placed, lookups>>

(***************************************************************************)
(* The venue working an order of its book: a fill, a rejection, an expiry. *)
(***************************************************************************)
VenueTransitions ==
    {<<"new", "partially_filled">>, <<"new", "filled">>, <<"new", "rejected">>,
     <<"new", "canceled">>, <<"partially_filled", "filled">>,
     <<"partially_filled", "canceled">>}

venue_event(order_id, status) ==
    /\ order_id \in 1 .. Len(venue_orders)
    /\ <<venue_orders[order_id].status, status>> \in VenueTransitions
    /\ venue_orders' =
          [venue_orders EXCEPT ![order_id].status = status,
                               ![order_id].filled_qty =
                                   IF status = "filled" THEN venue_orders[order_id].qty
                                   ELSE IF status = "partially_filled"
                                        THEN venue_orders[order_id].qty \div 2
                                        ELSE @]
    /\ last' = Step("venue_event", order_id, "ok", "", <<>>, None)
    /\ UNCHANGED <<assets, positions, order_attrs, placed, lookups>>

(***************************************************************************)
(* Inputs.                                                                 *)
(***************************************************************************)
Sizes == {10456, 10500, 10600}
SubmitOrders ==
    [instrument : Instruments, direction : Directions, size : Sizes,
     order_type : SubmitTypes, order_limit_price : LimitPrices,
     order_stop_price : StopPrices]
CloseOrders ==
    [instrument : Instruments, direction : Directions, size : {10456},
     order_type : {"close"}, order_limit_price : {None}, order_stop_price : {None}]
OtherOrders ==
    [instrument : {"AAPL"}, direction : {1}, size : {10456},
     order_type : {"modify", "trailing"}, order_limit_price : {None},
     order_stop_price : {None}]
Orders == SubmitOrders \cup CloseOrders \cup OtherOrders

(* Sizes rounded by SpecRound: every eighth up to MaxEighths / 8, which a  *)
(* double holds exactly, and decimals it does not (2.675 is 2.67499...).   *)
RoundSizes ==
    {(k * Pow10(Scale)) \div 8 : k \in 0 .. MaxEighths}
        \cup {2675, 1005, 10456, 35, 45}

(* Orders an account already has at the venue when SpecBook starts.        *)
BookOrders ==
    {[symbol |-> "AAPL", qty |-> 10000, side |-> "buy", type |-> "trailing_stop",
      limit_price |-> None, stop_price |-> None],
     [symbol |-> "BTCUSD", qty |-> 0 - 10460, side |-> "sell", type |-> "limit",
      limit_price |-> 101500, stop_price |-> None],
     [symbol |-> "AAPL", qty |-> 0 - 11000, side |-> "sell", type |-> "stop_limit",
      limit_price |-> 101500, stop_price |-> 99250]}

RECURSIVE Books(_)
Books(n) ==
    IF n = 0 THEN {<<>>}
    ELSE Books(n - 1) \cup
         {Append(b, [id |-> Len(b) + 1, symbol |-> o.symbol, qty |-> o.qty,
                     side |-> o.side, type |-> o.type, limit_price |-> o.limit_price,
                     stop_price |-> o.stop_price, status |-> "new", filled_qty |-> 0]) :
            b \in {x \in Books(n - 1) : Len(x) = n - 1}, o \in BookOrders}

(***************************************************************************)
(* Specifications.  Spec is the broker against a venue, every operation   *)
(* interleaved.  The operations share no broker state, so its behaviours   *)
(* are explored in three parts: SpecPlace is order placement, SpecRound    *)
(* the rounding methods over every asset kind, SpecBook the queries and    *)
(* cancel_order on an account that already has orders at the venue.        *)
(***************************************************************************)
Accounts ==
    {[i \in Instruments |-> NoPosition],
     [i \in Instruments |-> IF i = "AAPL" THEN LongPosition ELSE NoPosition],
     [i \in Instruments |-> IF i = "AAPL" THEN NoPosition ELSE ShortPosition]}

InitCaller ==
    /\ placed = <<>>
    /\ lookups = [i \in Instruments |-> 0]
    /\ last = Step("__init__", None, "ok", "", <<>>, None)

Init ==
    /\ order_attrs \in OrderEntities
    /\ assets \in [Instruments -> PlaceAssets]
    /\ venue_orders = <<>>
    /\ positions \in Accounts
    /\ InitCaller

InitRound ==
    /\ order_attrs \in OrderEntities
    /\ assets \in [Instruments -> Assets]
    /\ venue_orders = <<>>
    /\ positions = [i \in Instruments |-> NoPosition]
    /\ InitCaller

InitBook ==
    /\ order_attrs \in OrderEntities
    /\ assets \in {[i \in Instruments |-> a] : a \in PlaceAssets}
    /\ venue_orders \in Books(MaxBook)
    /\ positions \in Accounts
    /\ InitCaller

PlaceStep == \E order \in Orders : place_order(order)

RoundStep ==
    \/ \E i \in Instruments, u \in RoundSizes : call_check_trade_size(i, u)
    \/ /\ last.op = "check_trade_size"
       /\ call_check_trade_size(last.arg.instrument, last.result)
    \/ \E i \in Instruments, p \in LimitPrices : call_check_precision(i, p)

BookStep ==
    \/ \E id \in 1 .. Len(venue_orders) + 1 : cancel_order(id)
    \/ \E i \in Instruments \cup {NoInstrument} : get_orders(i)
    \/ \E i \in Instruments \cup {NoInstrument} : get_trades(i)
    \/ \E i \in Instruments \cup {NoInstrument} : get_positions(i)
    \/ \E id \in 1 .. Len(venue_orders), s \in OpenStatuses \cup ClosedStatuses :
          venue_event(id, s)

Next == PlaceStep \/ RoundStep \/ BookStep

Spec == Init /\ [][Next]_vars

SpecPlace == Init /\ [][PlaceStep]_vars

SpecRound == InitRound /\ [][RoundStep]_vars

SpecBook == InitBook /\ [][BookStep]_vars

(***************************************************************************)
(* Properties.                                                             *)
(***************************************************************************)
PlacedOrder == last.op = "place_order"

SubmitCalls == CallsOf(last.calls, "submit_order")

Unit == Pow10(Scale)

(* C1: over any sequence of place_order calls, at most one venue           *)
(* submission (submit_order or close_position) is made for one order.      *)
C1_AtMostOneSubmissionPerOrder ==
    \A o \in Orders : SubmitsOf(placed, o) <= 1

(* C2: place_order of an order whose type is none of market, limit,        *)
(* stop-limit, close ends in an UnsupportedOrderType error and makes no    *)
(* venue call; it never returns normally.                                  *)
C2_UnsupportedTypeIsAnError ==
    (PlacedOrder /\ last.arg.order_type \notin {"market", "limit", "stop-limit", "close"})
        => (last.outcome = "UnsupportedOrderType" /\ last.calls = <<>>)

(* C3: cancel_order of an order that is already filled, cancelled or       *)
(* rejected issues no venue cancel call, raises nothing and leaves the     *)
(* order's status as it was.                                               *)
C3_CancelOfTerminalOrderIsNoOp ==
    [][\A id \in 1 .. Len(venue_orders) :
          (venue_orders[id].status \in ClosedStatuses /\ cancel_order(id))
              => /\ last'.calls = <<>>
                 /\ last'.outcome = "ok"
                 /\ venue_orders' = venue_orders]_vars

(* C4: get_asset is called at most once for each instrument, later         *)
(* precision lookups being served from a cache.                            *)
C4_OneLookupPerInstrument ==
    \A i \in Instruments : lookups[i] <= 1

(* C5: a market, limit or stop-limit order on a non-fractionable           *)
(* instrument is submitted once, with a whole-number size magnitude that   *)
(* is the requested size rounded to 0 decimals; no unrounded size reaches  *)
(* the venue.                                                              *)
C5_NonFractionableSizeIsWhole ==
    (/\ PlacedOrder
     /\ last.arg.order_type \in SubmitTypes
     /\ ~assets[last.arg.instrument].fractionable)
        => /\ Cardinality(SubmitCalls) = 1
           /\ \A k \in SubmitCalls :
                /\ Abs(last.calls[k].qty) % Unit = 0
                /\ 2 * Abs(Abs(last.calls[k].qty) - last.arg.size) <= Unit
                /\ last.calls[k].qty = last.arg.direction * Abs(last.calls[k].qty)
           /\ \A k \in 1 .. Len(last.calls) :
                last.calls[k].qty # None => Abs(last.calls[k].qty) % Unit = 0

C5_Witness ==
    /\ PlacedOrder
    /\ last.arg.order_type = "market"
    /\ last.arg.size = 10456
    /\ last.arg.direction = 1
    /\ ~assets[last.arg.instrument].fractionable
    /\ assets[last.arg.instrument].min_trade_increment.exponent # 0
    /\ \E k \in SubmitCalls : last.calls[k].qty = 10 * Unit

(* C6: check_trade_size applied to its own result returns it unchanged,    *)
(* and its result has no more decimals than the instrument's precision:    *)
(* the decimals of min_trade_increment when fractionable, else 0.          *)
C6_RoundStableAndWithinPrecision ==
    last.op = "check_trade_size"
        => LET i == last.arg.instrument
               increment == assets[i].min_trade_increment
               precision == IF assets[i].fractionable THEN 0 - increment.exponent ELSE 0
           IN /\ check_trade_size(i, last.result) = last.result
              /\ Decimals(last.result) <= precision

C6_Witness ==
    /\ last.op = "check_trade_size"
    /\ assets[last.arg.instrument].fractionable
    /\ assets[last.arg.instrument].min_trade_increment.exponent = 0 - 2
    /\ last.arg.units = 2670
    /\ last.result = 2670
    /\ lookups[last.arg.instrument] = 2

(* C7: a market order is submitted with venue type market, a limit order   *)
(* with type limit and its limit_price, a stop-limit order with type       *)
(* stop_limit and its limit_price and stop_price; side is buy when         *)
(* direction > 0 and sell otherwise.                                       *)
VenueTypeOf(order_type) ==
    CASE order_type = "market" -> "market"
      [] order_type = "limit" -> "limit"
      [] order_type = "stop-limit" -> "stop_limit"

C7_VenueRequestMatchesOrder ==
    (PlacedOrder /\ last.arg.order_type \in SubmitTypes)
        => \A k \in SubmitCalls :
             /\ last.calls[k].type = VenueTypeOf(last.arg.order_type)
             /\ last.calls[k].side = (IF last.arg.direction > 0 THEN "buy" ELSE "sell")
             /\ last.arg.order_type \in {"limit", "stop-limit"}
                    => last.calls[k].limit_price = last.arg.order_limit_price
             /\ last.arg.order_type = "stop-limit"
                    => last.calls[k].stop_price = last.arg.order_stop_price

(* C9: get_orders, get_trades and get_positions change nothing at the      *)
(* venue or in the broker and issue no submit_order, cancel_order or       *)
(* close_position; called with an instrument, every record they return is  *)
(* of that instrument only, get_orders of open orders, get_trades of       *)
(* filled orders, each record under its own id or symbol.                  *)
QueryOps == {"get_orders", "get_trades", "get_positions"}

QueryResultOk ==
    LET r == last.result
        wanted(symbol) == last.arg = NoInstrument \/ symbol = last.arg
    IN /\ \A k \in 1 .. Len(last.calls) :
            last.calls[k].fn \in {"list_orders", "get_position", "get_positions"}
       /\ (last.op = "get_orders" /\ last.outcome = "ok") =>
            \A k \in DOMAIN r :
                /\ r[k].id = k
                /\ wanted(r[k].instrument)
                /\ k \in 1 .. Len(venue_orders)
                /\ venue_orders[k].status \in OpenStatuses
                /\ venue_orders[k].symbol = r[k].instrument
       /\ (last.op = "get_trades" /\ last.outcome = "ok") =>
            \A k \in DOMAIN r :
                /\ r[k].id = k
                /\ wanted(r[k].instrument)
                /\ r[k].status = "filled"
                /\ r[k].size = venue_orders[k].filled_qty
                /\ k \in 1 .. Len(venue_orders)
                /\ venue_orders[k].status = "filled"
                /\ venue_orders[k].symbol = r[k].instrument
       /\ (last.op = "get_positions" /\ last.outcome = "ok") =>
            \A k \in DOMAIN r :
                /\ r[k].instrument = k
                /\ wanted(k)
                /\ positions[k] # NoPosition

C9_QueriesReadOnlyAndFiltered ==
    [][last'.op \in QueryOps =>
          /\ UNCHANGED <<assets, venue_orders, positions, order_attrs, placed, lookups>>
          /\ QueryResultOk']_vars

C9_Witness ==
    /\ last.op = "get_trades"
    /\ last.arg = "AAPL"
    /\ last.outcome = "ok"
    /\ DOMAIN last.result = {2}
    /\ last.result[2].status = "filled"
    /\ venue_orders[1].symbol = "AAPL"
    /\ venue_orders[1].status \in {"canceled", "rejected"}

(* C10: place_order makes exactly the venue calls its order_type selects:  *)
(* market, limit and stop-limit one get_asset and then one submit_order    *)
(* with qty = direction x rounded size; close one close_position for the   *)
(* order's instrument and nothing else; any other type no call at all.     *)
C10_DispatchByOrderType ==
    PlacedOrder =>
        LET order == last.arg
            calls == last.calls
        IN /\ order.order_type \in SubmitTypes =>
                /\ Len(calls) = 2
                /\ calls[1] = GetAssetCall(order.instrument)
                /\ calls[2].fn = "submit_order"
                /\ calls[2].symbol = order.instrument
                /\ calls[2].qty =
                      order.direction * PyRound(order.size, _get_precision(order.instrument))
           /\ order.order_type = "close" =>
                calls = <<ClosePositionCall(order.instrument)>>
           /\ order.order_type \notin SubmitTypes \cup {"close"} => calls = <<>>

C10_Witness ==
    /\ PlacedOrder
    /\ last.arg.order_type = "close"
    /\ last.arg.direction = 0 - 1
    /\ last.outcome = "ok"
    /\ last.calls = <<ClosePositionCall("AAPL")>>
    /\ positions["AAPL"] = NoPosition
    /\ Len(placed) = 2
    /\ placed[1].order.order_type = "limit"
    /\ Len(venue_orders) = 1

====
